---- MODULE Spec2Model ----
(***************************************************************************)
(* Submission lifecycle of the ESI progress tracker backend                *)
(* (src/backend/src/server.ts): the submissions table, groups.json,        *)
(* notifications.json and the HTTP handlers that read and write them.      *)
(*                                                                         *)
(* Encoding of JavaScript values:                                          *)
(*  - user ids are sequences of characters, so that toLowerCase() and      *)
(*    String.includes() are computed; the empty sequence stands for an     *)
(*    id that is undefined (ids in requests are never the empty string);   *)
(*  - other strings are TLA+ strings; Undefined stands for undefined and   *)
(*    for SQL NULL, "" is the empty string;                                *)
(*  - a grade is a number >= 0; NoGrade stands for undefined / NULL and    *)
(*    NotANumber for a request value whose typeof is not 'number';         *)
(*  - Date.now() and new Date().toISOString() both read the clock `now`;   *)
(*    a submission id sub_<Date.now()> is the clock reading itself.        *)
(***************************************************************************)
EXTENDS Integers, Sequences, FiniteSets, TLC

\* ------------------------------------------------------------------ bounds
MaxClock == 2
MaxSubs == 1
MaxVersions == 2
MaxFeedback == 1
MaxNotifications == 3
MaxGroups == 1
MaxProcs == 2

\* --------------------------------------------------------- value encoding
Undefined == "<undefined>"
NoId == << >>
NoGrade == -1
NotANumber == -2
NoGroup == 0
LegacyTime == 0

Truthy(v) == v # Undefined /\ v # ""

\* String.prototype.toLowerCase over the alphabet of the modelled ids
LowerChar(ch) == IF ch = "A" THEN "a" ELSE ch

ToLower(s) == [i \in 1..Len(s) |-> LowerChar(s[i])]

\* String.prototype.includes: `part` occurs in `s` as a contiguous substring
Includes(s, part) ==
  \E k \in 0..(Len(s) - Len(part)) :
    \A i \in 1..Len(part) : s[k + i] = part[i]

\* Array.prototype.includes
ArrIncludes(arr, x) == \E i \in 1..Len(arr) : arr[i] = x

\* Array.prototype.filter with the predicate "element /= x"
RECURSIVE Without(_, _)
Without(arr, x) ==
  IF arr = << >> THEN << >>
  ELSE IF Head(arr) = x THEN Without(Tail(arr), x)
       ELSE <<Head(arr)>> \o Without(Tail(arr), x)

\* ------------------------------------------------------------ user table
S1 == <<"s", "1">>
S2 == <<"s", "2">>
ProfAb == <<"A", "b">>
Profab == <<"a", "b">>
ProfU == <<"u">>
ProfAbc == <<"a", "b", "c">>
Anon == <<"a">>

\* rows of the users table: registration and verification are not modelled,
\* the directory is fixed
users ==
  { [userId |-> S1, role |-> "student", verified |-> TRUE],
    [userId |-> S2, role |-> "student", verified |-> TRUE],
    [userId |-> ProfAb, role |-> "professor", verified |-> TRUE],
    [userId |-> Profab, role |-> "professor", verified |-> TRUE],
    [userId |-> ProfU, role |-> "professor", verified |-> FALSE],
    [userId |-> ProfAbc, role |-> "professor", verified |-> TRUE] }

UserExists(uid) == \E u \in users : u.userId = uid

getUserByUserId(uid) == CHOOSE u \in users : u.userId = uid

IsVerifiedProfessor(uid) ==
  /\ UserExists(uid)
  /\ getUserByUserId(uid).role = "professor"
  /\ getUserByUserId(uid).verified

\* ----------------------------------------------------------------- state
VARIABLES
  submissions,    \* rows of the submissions table, in rowid order
  groups,         \* groups.json
  notifications,  \* notifications.json
  now,            \* the clock read by Date.now()
  foreignKeys,    \* whether the SQLite build enforces FOREIGN KEY clauses
  last,           \* the request just handled and its response, or Idle
  loaded          \* per server process: the update that has read its
                  \* submission and has not saved it yet

vars == <<submissions, groups, notifications, now, foreignKeys, last, loaded>>

\* ------------------------------------------------------- submissions table
RowIndex(rows, id) == CHOOSE i \in 1..Len(rows) : rows[i].id = id

HasRow(rows, id) == \E i \in 1..Len(rows) : rows[i].id = id

\* SELECT * FROM submissions WHERE id = ? (the caller tests HasRow first)
getSubmissionById(id) == submissions[RowIndex(submissions, id)]

\* FOREIGN KEY(studentId) and FOREIGN KEY(professorId) REFERENCES users(userId)
ForeignKeysHold(sub) ==
  foreignKeys => (UserExists(sub.studentId) /\ UserExists(sub.professorId))

\* the row saveSubmission hands to the upsert statement
SavedRow(sub) ==
  [sub EXCEPT !.grade = IF sub.grade >= 0 THEN sub.grade ELSE NoGrade]

\* INSERT ... ON CONFLICT(id) DO UPDATE SET <every column>
upsertSubmissionStmt(rows, row) ==
  IF HasRow(rows, row.id)
  THEN [rows EXCEPT ![RowIndex(rows, row.id)] = row]
  ELSE Append(rows, row)

\* saveSubmission: the table after the call; the call throws (and the table
\* is left as it was) when a foreign key is enforced and violated
SaveThrows(sub) == ~ForeignKeysHold(sub)

saveSubmission(rows, sub) == upsertSubmissionStmt(rows, SavedRow(sub))

\* ------------------------------------------------------------- groups.json
HasGroup(gid) == \E i \in 1..Len(groups) : groups[i].id = gid

FindGroup(gid) == groups[CHOOSE i \in 1..Len(groups) : groups[i].id = gid]

\* ------------------------------------------------------ notifications.json
\* of a notification the model keeps the recipient, the type and relatedId
createNotification(userId, type, relatedId) ==
  [userId |-> userId, type |-> type, relatedId |-> relatedId]

\* --------------------------------------------------------------- requests
\* a group id is the clock reading at which the group was made
GroupIds == 1..MaxClock

\* server processes that share database.sqlite (one per PORT)
Procs == 1..MaxProcs

\* the process is not between getSubmissionById and saveSubmission
NotLoaded ==
  [op |-> "none", userId |-> NoId, role |-> "", id |-> 0, body |-> << >>,
   sub |-> << >>]

\* the server waits for the next request
Idle ==
  [op |-> "idle", userId |-> NoId, role |-> "", id |-> 0, body |-> << >>,
   code |-> 0, result |-> << >>]

Response(op, c, id, body, code, result) ==
  [op |-> op, userId |-> c.userId, role |-> c.role, id |-> id, body |-> body,
   code |-> code, result |-> result]

\* a submission as data/submissions.json held it before versions existed,
\* after migrateJsonToDatabase normalised it
LegacySubmission ==
  [id |-> 0, studentId |-> S1, professorId |-> ProfAb, groupId |-> NoGroup,
   title |-> "T1", type |-> "pdf", contentRef |-> "/a", notes |-> Undefined,
   milestones |-> << >>, createdAt |-> LegacyTime, updatedAt |-> LegacyTime,
   status |-> "submitted", grade |-> NoGrade, feedback |-> << >>,
   versions |-> << >>, currentVersion |-> 1]

\* the state when the server starts to listen: `tables` are the contents the
\* migration can leave in the submissions table, `builds` the settings of
\* foreign key enforcement a specification covers
InitWith(tables, builds) ==
  /\ submissions \in tables
  /\ groups = << >>
  /\ notifications = << >>
  /\ now = 1
  /\ foreignKeys \in builds
  /\ last = Idle
  /\ loaded = [p \in Procs |-> NotLoaded]

Init == InitWith({<< >>, <<LegacySubmission>>}, {TRUE})

\* the handlers are synchronous: a request is handled to its response before
\* the event loop takes the next one
Respond ==
  /\ last.op # "idle"
  /\ last' = Idle
  /\ UNCHANGED <<submissions, groups, notifications, now, foreignKeys, loaded>>

\* time passes between two requests
Tick ==
  /\ last.op = "idle"
  /\ now < MaxClock
  /\ now' = now + 1
  /\ UNCHANGED <<submissions, groups, notifications, foreignKeys, last, loaded>>

\* ------------------------------------------------- POST /api/submissions
\* Create that keeps no history entry for the initial content
newSubmission_NoInitialVersion(c, b) ==
  [id |-> now, studentId |-> c.userId, professorId |-> b.professorId,
   groupId |-> b.groupId, title |-> b.title, type |-> b.type,
   contentRef |-> b.contentRef, notes |-> b.notes,
   milestones |-> IF b.milestones.kind = "array" THEN b.milestones.items ELSE << >>,
   createdAt |-> now, updatedAt |-> now, status |-> "submitted",
   grade |-> NoGrade, feedback |-> << >>,
   versions |-> << >>,
   currentVersion |-> 1]

newSubmission(c, b) ==
  [id |-> now, studentId |-> c.userId, professorId |-> b.professorId,
   groupId |-> b.groupId, title |-> b.title, type |-> b.type,
   contentRef |-> b.contentRef, notes |-> b.notes,
   milestones |-> IF b.milestones.kind = "array" THEN b.milestones.items ELSE << >>,
   createdAt |-> now, updatedAt |-> now, status |-> "submitted",
   grade |-> NoGrade, feedback |-> << >>,
   versions |-> << [version |-> 1, contentRef |-> b.contentRef, notes |-> b.notes,
                    createdAt |-> now, createdBy |-> c.userId,
                    changes |-> "Initial submission"] >>,
   currentVersion |-> 1]

CreateCode(c, b) ==
  IF c.role # "student" THEN 403
  ELSE IF ~Truthy(b.title) \/ ~Truthy(b.type) \/ ~Truthy(b.contentRef)
          \/ b.professorId = NoId THEN 400
  ELSE IF ~IsVerifiedProfessor(b.professorId) THEN 400
  ELSE IF b.groupId # NoGroup /\ ~HasGroup(b.groupId) THEN 400
  ELSE IF b.groupId # NoGroup /\ ~ArrIncludes(FindGroup(b.groupId).members, c.userId)
    THEN 403
  ELSE IF SaveThrows(newSubmission(c, b)) THEN 500
  ELSE 201

CreateSubmission(c, b) ==
  LET code == CreateCode(c, b) IN
  /\ last.op = "idle"
  /\ Len(notifications) < MaxNotifications
  /\ HasRow(submissions, now) \/ Len(submissions) < MaxSubs
  /\ IF code = 201
     THEN /\ submissions' = saveSubmission(submissions, newSubmission(c, b))
          /\ notifications' = Append(notifications,
               createNotification(b.professorId, "new_submission", now))
     ELSE UNCHANGED <<submissions, notifications>>
  /\ last' = Response("create", c, now, b, code, << >>)
  /\ UNCHANGED <<groups, now, foreignKeys, loaded>>

\* ------------------------------------------ PATCH /api/submissions/:id
\* the access check on a student caller, shared by the update handler and
\* the two version-read handlers
\* an access check that looks at ownership only when there is no group
StudentForbidden_GroupUnchecked(c, sub) ==
  sub.groupId = NoGroup /\ sub.studentId # c.userId

StudentForbidden(c, sub) ==
  IF sub.groupId # NoGroup
  THEN \/ ~HasGroup(sub.groupId)
       \/ ~ArrIncludes(FindGroup(sub.groupId).members, c.userId)
  ELSE sub.studentId # c.userId

\* a content test that forgets to compare with the stored contentRef
contentChanged_NoComparison(sub, p) == Truthy(p.contentRef)

contentChanged(sub, p) == Truthy(p.contentRef) /\ p.contentRef # sub.contentRef

\* a notes test that takes the empty string for absent
notesChanged_EmptyIsAbsent(sub, p) == Truthy(p.notes) /\ p.notes # sub.notes

notesChanged(sub, p) == p.notes # Undefined /\ p.notes # sub.notes

\* a version entry that records the stored contentRef, not the new one
NewVersion_StaleContent(c, sub, p) ==
  [version |-> sub.currentVersion + 1,
   contentRef |-> sub.contentRef,
   notes |-> IF p.notes # Undefined THEN p.notes ELSE sub.notes,
   createdAt |-> now, createdBy |-> c.userId,
   changes |-> IF Truthy(p.changes) THEN p.changes
               ELSE IF contentChanged(sub, p) THEN "Content updated"
               ELSE "Notes updated"]

\* a version entry whose default text looks at the notes first
NewVersion_NotesFirst(c, sub, p) ==
  [version |-> sub.currentVersion + 1,
   contentRef |-> IF Truthy(p.contentRef) THEN p.contentRef ELSE sub.contentRef,
   notes |-> IF p.notes # Undefined THEN p.notes ELSE sub.notes,
   createdAt |-> now, createdBy |-> c.userId,
   changes |-> IF Truthy(p.changes) THEN p.changes
               ELSE IF notesChanged(sub, p) THEN "Notes updated"
               ELSE "Content updated"]

\* the version entry the student branch pushes
NewVersion(c, sub, p) ==
  [version |-> sub.currentVersion + 1,
   contentRef |-> IF Truthy(p.contentRef) THEN p.contentRef ELSE sub.contentRef,
   notes |-> IF p.notes # Undefined THEN p.notes ELSE sub.notes,
   createdAt |-> now, createdBy |-> c.userId,
   changes |-> IF Truthy(p.changes) THEN p.changes
               ELSE IF contentChanged(sub, p) THEN "Content updated"
               ELSE "Notes updated"]

\* a versioning block that pushes an entry without moving currentVersion
Versioned_KeepsCurrentVersion(c, sub, p) ==
  IF contentChanged(sub, p) \/ notesChanged(sub, p)
  THEN [sub EXCEPT
          !.versions = Append(sub.versions, NewVersion(c, sub, p)),
          !.contentRef = IF Truthy(p.contentRef) THEN p.contentRef ELSE @,
          !.notes = IF p.notes # Undefined THEN p.notes ELSE @]
  ELSE sub

\* a versioning block that leaves the root contentRef as it was
Versioned_RootContentKept(c, sub, p) ==
  IF contentChanged(sub, p) \/ notesChanged(sub, p)
  THEN [sub EXCEPT
          !.currentVersion = sub.currentVersion + 1,
          !.versions = Append(sub.versions, NewVersion(c, sub, p)),
          !.notes = IF p.notes # Undefined THEN p.notes ELSE @]
  ELSE sub

\* lines 975-990: the submission after the versioning block
Versioned(c, sub, p) ==
  IF contentChanged(sub, p) \/ notesChanged(sub, p)
  THEN [sub EXCEPT
          !.currentVersion = sub.currentVersion + 1,
          !.versions = Append(sub.versions, NewVersion(c, sub, p)),
          !.contentRef = IF Truthy(p.contentRef) THEN p.contentRef ELSE @,
          !.notes = IF p.notes # Undefined THEN p.notes ELSE @]
  ELSE sub

PatchedMilestones(sub, p) ==
  IF p.milestones.kind = "undefined" THEN sub.milestones
  ELSE IF p.milestones.kind = "array" THEN p.milestones.items
  ELSE sub.milestones

\* lines 970-1002, without the early return on an invalid professor
StudentUpdated(c, sub, p) ==
  LET v == Versioned(c, sub, p) IN
  [v EXCEPT
     !.title = IF p.title # Undefined THEN p.title ELSE @,
     !.type = IF p.type # Undefined THEN p.type ELSE @,
     !.milestones = PatchedMilestones(sub, p),
     !.professorId = IF p.professorId # NoId THEN p.professorId ELSE @]

\* a professor branch that also takes the title of the patch
ProfessorUpdated_AlsoTitle(sub, p) ==
  [sub EXCEPT
     !.title = IF p.title # Undefined THEN p.title ELSE @,
     !.notes = IF p.notes # Undefined THEN p.notes ELSE @,
     !.milestones = PatchedMilestones(sub, p)]

\* lines 1003-1007
ProfessorUpdated(sub, p) ==
  [sub EXCEPT
     !.notes = IF p.notes # Undefined THEN p.notes ELSE @,
     !.milestones = PatchedMilestones(sub, p)]

Updated(c, sub, p) ==
  [(IF c.role = "student" THEN StudentUpdated(c, sub, p) ELSE ProfessorUpdated(sub, p))
     EXCEPT !.updatedAt = now]

\* the answer of the handler once it holds the submission `sub`
UpdateCodeFor(c, sub, p) ==
  IF c.role = "student" /\ StudentForbidden(c, sub) THEN 403
  ELSE IF c.role = "student" /\ p.professorId # NoId
          /\ ~IsVerifiedProfessor(p.professorId) THEN 400
  ELSE IF SaveThrows(Updated(c, sub, p)) THEN 500
  ELSE 200

UpdateCode(c, id, p) ==
  IF ~HasRow(submissions, id) THEN 404
  ELSE UpdateCodeFor(c, getSubmissionById(id), p)

\* an update that saves the patched submission before it answers 400
UpdateSubmission_SavesBeforeAnswer(c, id, p) ==
  LET code == UpdateCode(c, id, p) IN
  /\ last.op = "idle"
  /\ code \in {200, 400} =>
       Len(Updated(c, getSubmissionById(id), p).versions) <= MaxVersions
  /\ submissions' =
       IF code = 200
       THEN saveSubmission(submissions, Updated(c, getSubmissionById(id), p))
       ELSE IF code = 400
       THEN saveSubmission(submissions,
              [Updated(c, getSubmissionById(id), p) EXCEPT
                 !.professorId = getSubmissionById(id).professorId])
       ELSE submissions
  /\ last' = Response("update", c, id, p, code, << >>)
  /\ UNCHANGED <<groups, notifications, now, foreignKeys, loaded>>

UpdateSubmission(c, id, p) ==
  LET code == UpdateCode(c, id, p) IN
  /\ last.op = "idle"
  /\ code = 200 =>
       Len(Updated(c, getSubmissionById(id), p).versions) <= MaxVersions
  /\ submissions' = IF code = 200
                    THEN saveSubmission(submissions, Updated(c, getSubmissionById(id), p))
                    ELSE submissions
  /\ last' = Response("update", c, id, p, code, << >>)
  /\ UNCHANGED <<groups, notifications, now, foreignKeys, loaded>>

\* ------------------------------------- POST /api/submissions/:id/comment
\* String.prototype.trim; a text is a sequence of characters, the empty
\* sequence standing for a text that is undefined or empty
RECURSIVE TrimStart(_)
TrimStart(t) == IF t # << >> /\ Head(t) = " " THEN TrimStart(Tail(t)) ELSE t

RECURSIVE TrimEnd(_)
TrimEnd(t) ==
  IF t # << >> /\ t[Len(t)] = " " THEN TrimEnd(SubSeq(t, 1, Len(t) - 1)) ELSE t

Trim(t) == TrimEnd(TrimStart(t))

CommentCode(c, id, text) ==
  IF c.role # "student" THEN 403
  ELSE IF text = << >> \/ Trim(text) = << >> THEN 400
  ELSE IF ~HasRow(submissions, id) THEN 404
  ELSE IF getSubmissionById(id).studentId # c.userId THEN 403
  ELSE IF SaveThrows(getSubmissionById(id)) THEN 500
  ELSE 200

\* a comment stored as it was sent
Commented_Untrimmed(c, sub, text) ==
  [sub EXCEPT
     !.feedback = Append(@, [by |-> c.userId, text |-> text, date |-> now]),
     !.updatedAt = now]

Commented(c, sub, text) ==
  [sub EXCEPT
     !.feedback = Append(@, [by |-> c.userId, text |-> Trim(text), date |-> now]),
     !.updatedAt = now]

AddComment(c, id, text) ==
  LET code == CommentCode(c, id, text) IN
  /\ last.op = "idle"
  /\ code = 200 => Len(getSubmissionById(id).feedback) < MaxFeedback
  /\ submissions' = IF code = 200
                    THEN saveSubmission(submissions, Commented(c, getSubmissionById(id), text))
                    ELSE submissions
  /\ last' = Response("comment", c, id, text, code, << >>)
  /\ UNCHANGED <<groups, notifications, now, foreignKeys, loaded>>

\* ------------------------------------ POST /api/submissions/:id/feedback
Statuses == {"submitted", "approved", "resubmit"}

\* an access check that compares the ids without regard to case
FeedbackCode_IgnoresCase(c, id, b) ==
  IF c.role # "professor" THEN 403
  ELSE IF ~HasRow(submissions, id) THEN 404
  ELSE IF ToLower(getSubmissionById(id).professorId) # ToLower(c.userId) THEN 403
  ELSE IF SaveThrows(getSubmissionById(id)) THEN 500
  ELSE 200

FeedbackCode(c, id, b) ==
  IF c.role # "professor" THEN 403
  ELSE IF ~HasRow(submissions, id) THEN 404
  ELSE IF getSubmissionById(id).professorId # c.userId THEN 403
  ELSE IF SaveThrows(getSubmissionById(id)) THEN 500
  ELSE 200

\* a handler that stores whatever status it is sent
FeedbackApplied_AnyStatus(c, sub, b) ==
  [sub EXCEPT
     !.feedback = IF b.text # << >>
                  THEN Append(@, [by |-> c.userId, text |-> b.text, date |-> now])
                  ELSE @,
     !.status = IF Truthy(b.status) THEN b.status ELSE @,
     !.grade = IF b.grade >= 0 THEN b.grade ELSE @,
     !.updatedAt = now]

\* lines 1047-1054
FeedbackApplied(c, sub, b) ==
  [sub EXCEPT
     !.feedback = IF b.text # << >>
                  THEN Append(@, [by |-> c.userId, text |-> b.text, date |-> now])
                  ELSE @,
     !.status = IF Truthy(b.status) /\ b.status \in Statuses THEN b.status ELSE @,
     !.grade = IF b.grade >= 0 THEN b.grade ELSE @,
     !.updatedAt = now]

\* lines 1057-1094: the notifications queued for the student, in order
FeedbackNotifications(sub, b) ==
  (IF b.text # << >>
   THEN <<createNotification(sub.studentId, "feedback", sub.id)>> ELSE << >>)
  \o (IF Truthy(b.status) /\ b.status # sub.status
      THEN <<createNotification(sub.studentId, "status_change", sub.id)>> ELSE << >>)
  \o (IF b.grade >= 0 /\ b.grade # sub.grade
      THEN <<createNotification(sub.studentId, "grade", sub.id)>> ELSE << >>)

ApplyFeedback(c, id, b) ==
  LET code == FeedbackCode(c, id, b) IN
  /\ last.op = "idle"
  /\ code = 200 =>
       /\ Len(FeedbackApplied(c, getSubmissionById(id), b).feedback) <= MaxFeedback
       /\ Len(notifications) + Len(FeedbackNotifications(getSubmissionById(id), b))
            <= MaxNotifications
  /\ IF code = 200
     THEN /\ submissions' =
               saveSubmission(submissions, FeedbackApplied(c, getSubmissionById(id), b))
          /\ notifications' =
               notifications \o FeedbackNotifications(getSubmissionById(id), b)
     ELSE UNCHANGED <<submissions, notifications>>
  /\ last' = Response("feedback", c, id, b, code, << >>)
  /\ UNCHANGED <<groups, now, foreignKeys, loaded>>

\* ------------------------------------------ filterSubmissionsByProfessor
ExactMatch(sub, professorId) == sub.professorId = professorId

\* a match that looks for the caller id inside the stored id only
FuzzyMatch_OneDirection(sub, professorId) ==
  LET professorIdLower == ToLower(professorId)
      submissionProfLower == ToLower(sub.professorId) IN
  \/ submissionProfLower = professorIdLower
  \/ Includes(submissionProfLower, professorIdLower)

FuzzyMatch(sub, professorId) ==
  LET professorIdLower == ToLower(professorId)
      submissionProfLower == ToLower(sub.professorId) IN
  \/ submissionProfLower = professorIdLower
  \/ Includes(submissionProfLower, professorIdLower)
  \/ Includes(professorIdLower, submissionProfLower)

ProfessorMatches(sub, professorId) ==
  /\ sub.professorId # NoId
  /\ ExactMatch(sub, professorId) \/ FuzzyMatch(sub, professorId)

\* a rewrite that is written back for every match, exact ones included
NeedsRewrite_EveryMatch(sub, professorId) == ProfessorMatches(sub, professorId)

\* the submission is written back with the caller's id (lines 362-365)
NeedsRewrite(sub, professorId) ==
  /\ ProfessorMatches(sub, professorId)
  /\ ~ExactMatch(sub, professorId)

\* a rewrite that stores the caller id in lower case
Rewritten_LowerCased(sub, professorId) ==
  [sub EXCEPT !.professorId = ToLower(professorId)]

Rewritten(sub, professorId) == [sub EXCEPT !.professorId = professorId]

\* the ids of the submissions the loop hands to saveSubmission
PersistWrites(list, professorId) ==
  {list[i].id : i \in {j \in 1..Len(list) : NeedsRewrite(list[j], professorId)}}

\* the table after the loop over `list`; the loop ends at the first
\* saveSubmission that throws
RECURSIVE PersistMatches(_, _, _)
PersistMatches(rows, list, professorId) ==
  IF list = << >> THEN rows
  ELSE IF ~NeedsRewrite(Head(list), professorId)
    THEN PersistMatches(rows, Tail(list), professorId)
  ELSE IF SaveThrows(Rewritten(Head(list), professorId)) THEN rows
  ELSE PersistMatches(saveSubmission(rows, Rewritten(Head(list), professorId)),
                      Tail(list), professorId)

FilterThrows(list, professorId) ==
  \E i \in 1..Len(list) :
    NeedsRewrite(list[i], professorId) /\ SaveThrows(Rewritten(list[i], professorId))

\* the submissions returned, in the order of the input list
filterSubmissionsByProfessor(list, professorId) ==
  SelectSeq(list, LAMBDA sub : ProfessorMatches(sub, professorId))

Ids(list) == [i \in 1..Len(list) |-> list[i].id]

\* --------------------------------------------------- GET /api/submissions
\* a student filter that looks at ownership only
StudentVisible_OwnerOnly(c, sub) == sub.studentId = c.userId

StudentVisible(c, sub) ==
  \/ sub.studentId = c.userId
  \/ /\ sub.groupId # NoGroup
     /\ \E i \in 1..Len(groups) :
          groups[i].id = sub.groupId /\ ArrIncludes(groups[i].members, c.userId)

QueryFiltered(list, q) ==
  SelectSeq(list, LAMBDA sub :
    /\ q.studentId # NoId => sub.studentId = q.studentId
    /\ q.groupId # NoGroup => sub.groupId = q.groupId)

ListSubmissions(c, q) ==
  /\ last.op = "idle"
  /\ IF c.role = "student"
     THEN /\ submissions' = submissions
          /\ last' = Response("list", c, 0, q, 200,
               Ids(QueryFiltered(
                 SelectSeq(submissions, LAMBDA sub : StudentVisible(c, sub)), q)))
     ELSE /\ submissions' = PersistMatches(submissions, submissions, c.userId)
          /\ last' = IF FilterThrows(submissions, c.userId)
                     THEN Response("list", c, 0, q, 500, << >>)
                     ELSE Response("list", c, 0, q, 200,
                            Ids(QueryFiltered(
                              filterSubmissionsByProfessor(submissions, c.userId), q)))
  /\ UNCHANGED <<groups, notifications, now, foreignKeys, loaded>>

\* -------------------------------------------- GET /api/analytics/overview
\* (submission-trends, performance and type-distribution select the
\* submissions the same way)
AnalyticsOverview(c) ==
  /\ last.op = "idle"
  /\ IF c.role = "student"
     THEN /\ submissions' = submissions
          /\ last' = Response("analytics", c, 0, << >>, 200,
               Ids(SelectSeq(submissions, LAMBDA sub : sub.studentId = c.userId)))
     ELSE /\ submissions' = PersistMatches(submissions, submissions, c.userId)
          /\ last' = IF FilterThrows(submissions, c.userId)
                     THEN Response("analytics", c, 0, << >>, 500, << >>)
                     ELSE Response("analytics", c, 0, << >>, 200,
                            Ids(filterSubmissionsByProfessor(submissions, c.userId)))
  /\ UNCHANGED <<groups, notifications, now, foreignKeys, loaded>>

\* ------------------------------------- GET /api/submissions/:id/versions
\* the access check on a professor caller in the two version-read handlers
VersionProfessorForbidden(c, sub) ==
  sub.professorId # c.userId /\ ToLower(sub.professorId) # ToLower(c.userId)

VersionAccessCode(c, id) ==
  IF ~HasRow(submissions, id) THEN 404
  ELSE LET sub == getSubmissionById(id) IN
    IF c.role = "student" /\ StudentForbidden(c, sub) THEN 403
    ELSE IF c.role = "professor" /\ VersionProfessorForbidden(c, sub) THEN 403
    ELSE IF c.role = "professor" /\ sub.professorId # c.userId
            /\ SaveThrows(Rewritten(sub, c.userId)) THEN 500
    ELSE 200

\* the table after the access check let the caller through
VersionAccessSaved(c, id) ==
  LET sub == getSubmissionById(id) IN
  IF c.role = "professor" /\ sub.professorId # c.userId
  THEN saveSubmission(submissions, Rewritten(sub, c.userId))
  ELSE submissions

ListVersions(c, id) ==
  LET code == VersionAccessCode(c, id) IN
  /\ last.op = "idle"
  /\ submissions' = IF code = 200 THEN VersionAccessSaved(c, id) ELSE submissions
  /\ last' = Response("versions", c, id, << >>, code,
               IF code = 200 THEN getSubmissionById(id).versions ELSE << >>)
  /\ UNCHANGED <<groups, notifications, now, foreignKeys, loaded>>

\* ---------------------------- GET /api/submissions/:id/versions/:version
ReadVersionCode(c, id, versionNum) ==
  IF VersionAccessCode(c, id) # 200 THEN VersionAccessCode(c, id)
  ELSE IF \E i \in 1..Len(getSubmissionById(id).versions) :
            getSubmissionById(id).versions[i].version = versionNum THEN 200
  ELSE 404

ReadVersion(c, id, versionNum) ==
  LET code == ReadVersionCode(c, id, versionNum) IN
  /\ last.op = "idle"
  /\ submissions' = IF VersionAccessCode(c, id) = 200
                    THEN VersionAccessSaved(c, id) ELSE submissions
  /\ last' = Response("version", c, id, versionNum, code,
               IF code = 200
               THEN SelectSeq(getSubmissionById(id).versions,
                              LAMBDA v : v.version = versionNum)
               ELSE << >>)
  /\ UNCHANGED <<groups, notifications, now, foreignKeys, loaded>>

\* ------------------------------------------------------- POST /api/groups
\* of a group the model keeps id, createdBy and members
CreateGroup(c) ==
  /\ last.op = "idle"
  /\ Len(groups) < MaxGroups
  /\ groups' = IF c.role = "student"
               THEN Append(groups, [id |-> now, createdBy |-> c.userId,
                                    members |-> <<c.userId>>])
               ELSE groups
  /\ last' = Response("createGroup", c, now, << >>,
                      IF c.role = "student" THEN 201 ELSE 403, << >>)
  /\ UNCHANGED <<submissions, notifications, now, foreignKeys, loaded>>

GroupIndex(gid) == CHOOSE i \in 1..Len(groups) : groups[i].id = gid

\* ------------------------------------------ POST /api/groups/:id/members
AddMemberCode(c, gid, studentId) ==
  IF c.role # "student" THEN 403
  ELSE IF studentId = NoId THEN 400
  ELSE IF ~HasGroup(gid) THEN 404
  ELSE IF FindGroup(gid).createdBy # c.userId THEN 403
  ELSE IF ~UserExists(studentId) THEN 400
  ELSE IF getUserByUserId(studentId).role # "student"
          \/ ~getUserByUserId(studentId).verified THEN 400
  ELSE IF ArrIncludes(FindGroup(gid).members, studentId) THEN 400
  ELSE 200

AddMember(c, gid, studentId) ==
  LET code == AddMemberCode(c, gid, studentId) IN
  /\ last.op = "idle"
  /\ groups' = IF code = 200
               THEN [groups EXCEPT ![GroupIndex(gid)].members = Append(@, studentId)]
               ELSE groups
  /\ last' = Response("addMember", c, gid, studentId, code, << >>)
  /\ UNCHANGED <<submissions, notifications, now, foreignKeys, loaded>>

\* ------------------------------ DELETE /api/groups/:id/members/:studentId
RemoveMemberCode(c, gid, studentId) ==
  IF c.role # "student" THEN 403
  ELSE IF ~HasGroup(gid) THEN 404
  ELSE IF FindGroup(gid).createdBy # c.userId /\ studentId # c.userId THEN 403
  ELSE IF studentId = FindGroup(gid).createdBy THEN 400
  ELSE 200

RemoveMember(c, gid, studentId) ==
  LET code == RemoveMemberCode(c, gid, studentId) IN
  /\ last.op = "idle"
  /\ groups' = IF code = 200
               THEN [groups EXCEPT ![GroupIndex(gid)].members = Without(@, studentId)]
               ELSE groups
  /\ last' = Response("removeMember", c, gid, studentId, code, << >>)
  /\ UNCHANGED <<submissions, notifications, now, foreignKeys, loaded>>

\* ----------------------------------------------------------- next state
\* the :id of a request names a stored submission or a group, which a client
\* learns from a listing, or none
NoSuchId == MaxClock + 1

TargetIds == {submissions[i].id : i \in 1..Len(submissions)} \cup {NoSuchId}

TargetGroups == {groups[i].id : i \in 1..Len(groups)} \cup {NoSuchId}

\* `In` gives the requests a specification sends: one set per handler
Next(In) ==
  \/ Respond
  \/ Tick
  \/ \E r \in In.creates : CreateSubmission(r.c, r.body)
  \/ \E r \in In.updates, id \in TargetIds : UpdateSubmission(r.c, id, r.body)
  \/ \E r \in In.comments, id \in TargetIds : AddComment(r.c, id, r.body)
  \/ \E r \in In.feedbacks, id \in TargetIds : ApplyFeedback(r.c, id, r.body)
  \/ \E r \in In.lists : ListSubmissions(r.c, r.body)
  \/ \E c \in In.analytics : AnalyticsOverview(c)
  \/ \E c \in In.versionLists, id \in TargetIds : ListVersions(c, id)
  \/ \E r \in In.versionReads, id \in TargetIds : ReadVersion(r.c, id, r.body)
  \/ \E c \in In.groupCreates : CreateGroup(c)
  \/ \E r \in In.memberAdds, gid \in TargetGroups : AddMember(r.c, gid, r.body)
  \/ \E r \in In.memberRemoves, gid \in TargetGroups : RemoveMember(r.c, gid, r.body)

Req(cs, bodies) == [c : cs, body : bodies]

Caller(userId, role) == [userId |-> userId, role |-> role]

NoMilestones == [kind |-> "undefined", items |-> << >>]

Patch(contentRef, notes, changes) ==
  [title |-> Undefined, type |-> Undefined, contentRef |-> contentRef,
   notes |-> notes, milestones |-> NoMilestones, professorId |-> NoId,
   changes |-> changes]

CreateBody(notes, groupId, professorId) ==
  [title |-> "T1", type |-> "pdf", contentRef |-> "/a", notes |-> notes,
   milestones |-> NoMilestones, groupId |-> groupId, professorId |-> professorId]

\* ------------------------------------------- requests about versioning
ContentPatches ==
  { Patch(cr, n, Undefined) : cr \in {Undefined, "", "/a", "/b"},
                              n \in {Undefined, "", "n1"} }
  \cup { Patch("/b", Undefined, "msg"), Patch(Undefined, "n1", "msg"),
         Patch(Undefined, Undefined, "msg"), Patch("/b", Undefined, "") }

\* a patch that carries every field other than changes
FullPatch(contentRef, notes, kind, professorId) ==
  [title |-> "T2", type |-> "zip", contentRef |-> contentRef, notes |-> notes,
   milestones |-> [kind |-> kind, items |-> IF kind = "array" THEN <<"m1">> ELSE << >>],
   professorId |-> professorId, changes |-> Undefined]

MetaPatches ==
  { FullPatch(Undefined, Undefined, "array", NoId),
    FullPatch(Undefined, Undefined, "other", Profab),
    FullPatch("/b", "n1", "array", Profab),
    FullPatch("/b", Undefined, "array", ProfU) }

VersionInputs ==
  [creates |->
     Req({Caller(S1, "student")},
         {CreateBody(n, NoGroup, ProfAb) : n \in {Undefined, "n1"}}),
   updates |->
     Req({Caller(S1, "student")}, ContentPatches \cup MetaPatches)
     \cup Req({Caller(ProfAb, "professor")},
              {Patch("/b", "", Undefined), FullPatch("/b", "n1", "array", Profab)}),
   comments |-> Req({Caller(S2, "student")}, {<<"h", "i">>}),
   feedbacks |->
     Req({Caller(Profab, "professor")},
         {[text |-> << >>, status |-> "approved", grade |-> 85]}),
   lists |->
     Req({Caller(S1, "student")}, {[studentId |-> NoId, groupId |-> NoGroup]}),
   analytics |-> {Caller(S1, "student")},
   versionLists |-> {Caller(ProfAb, "professor")},
   versionReads |-> Req({Caller(S1, "student")}, {1}),
   groupCreates |-> {Caller(ProfAb, "professor")},
   memberAdds |-> Req({Caller(S2, "student")}, {S1}),
   memberRemoves |-> Req({Caller(S2, "student")}, {S1})]

\* ------------------------------------------------ requests about access
AccessInputs ==
  [creates |->
     Req({Caller(S1, "student"), Caller(S2, "student")},
         {CreateBody(Undefined, g, ProfAb) : g \in {NoGroup} \cup GroupIds}),
   updates |->
     Req({Caller(S1, "student"), Caller(S2, "student"),
          Caller(ProfAb, "professor"), Caller(Profab, "professor"),
          Caller(S2, "professor")},
         {Patch(Undefined, "n1", Undefined)}),
   comments |-> Req({Caller(S2, "student")}, {<<"h", "i">>}),
   feedbacks |->
     Req({Caller(Profab, "professor")},
         {[text |-> << >>, status |-> "approved", grade |-> NoGrade]}),
   lists |->
     Req({Caller(S2, "student")}, {[studentId |-> NoId, groupId |-> NoGroup]}),
   analytics |-> {Caller(S1, "student")},
   versionLists |-> {Caller(S2, "student")},
   versionReads |-> Req({Caller(S1, "student")}, {1}),
   groupCreates |-> {Caller(S1, "student"), Caller(S2, "student")},
   memberAdds |-> Req({Caller(S1, "student"), Caller(S2, "student")}, {S1, S2}),
   memberRemoves |-> Req({Caller(S1, "student"), Caller(S2, "student")}, {S1, S2})]

\* ---------------------------------------------------------- specifications
\* versioning: the table starts empty or holds a migrated submission
Spec == Init /\ [][Next(VersionInputs)]_vars

\* versioning, from an empty table
SpecCreated == InitWith({<< >>}, {TRUE}) /\ [][Next(VersionInputs)]_vars

\* ownership, groups and roles
SpecAccess == InitWith({<< >>}, {TRUE}) /\ [][Next(AccessInputs)]_vars

\* ------------------------------------------------------------ properties
\* ids allocated by Create are clock readings; a migrated submission keeps
\* the id it had in submissions.json, allocated before the server started
MadeByCreate(sub) == sub.id > LegacyTime

Rows == {submissions[i] : i \in 1..Len(submissions)}

PostRow(id) == submissions'[RowIndex(submissions', id)]

\* currentVersion is the highest version number present in versions
CurrentIsHighest(sub) ==
  /\ \E i \in 1..Len(sub.versions) : sub.versions[i].version = sub.currentVersion
  /\ \A i \in 1..Len(sub.versions) : sub.versions[i].version <= sub.currentVersion

CurrentEntries(sub) ==
  {sub.versions[i] : i \in {j \in 1..Len(sub.versions) :
                              sub.versions[j].version = sub.currentVersion}}

RootContentMatches(sub) ==
  /\ CurrentEntries(sub) # {}
  /\ \A v \in CurrentEntries(sub) : v.contentRef = sub.contentRef

RootNotesMatch(sub) ==
  /\ CurrentEntries(sub) # {}
  /\ \A v \in CurrentEntries(sub) : v.notes = sub.notes

IsPrefix(a, b) == Len(a) <= Len(b) /\ SubSeq(b, 1, Len(a)) = a

\* the request just handled was a student update answered 200
StudentUpdateDone(l) == l.op = "update" /\ l.role = "student" /\ l.code = 200

\* C1 as stated: every stored submission has currentVersion equal to the
\* highest version number present in its versions list.
C1_Original == \A sub \in Rows : CurrentIsHighest(sub)

\* C1 amended: every stored submission made by Create has currentVersion
\* equal to the highest version number present in its versions list.
C1_CurrentVersionIsHighest ==
  \A sub \in Rows : MadeByCreate(sub) => CurrentIsHighest(sub)

C1_Witness ==
  /\ StudentUpdateDone(last)
  /\ \E sub \in Rows :
       MadeByCreate(sub) /\ sub.id = last.id /\ sub.currentVersion > 1

C2_Step ==
  \A i \in 1..Len(submissions') :
    LET sub == submissions'[i] IN
    MadeByCreate(sub) =>
      /\ RootContentMatches(sub)
      /\ (last'.op = "create" /\ last'.code = 201 /\ last'.id = sub.id)
           => RootNotesMatch(sub)
      /\ (/\ StudentUpdateDone(last') /\ last'.id = sub.id
          /\ sub.currentVersion > getSubmissionById(sub.id).currentVersion)
           => RootNotesMatch(sub)
      /\ ~RootNotesMatch(sub) =>
           \/ /\ last'.op = "update" /\ last'.role # "student"
              /\ last'.code = 200 /\ last'.id = sub.id
           \/ /\ HasRow(submissions, sub.id)
              /\ ~RootNotesMatch(getSubmissionById(sub.id))

C3_Step ==
  /\ \A i \in 1..Len(submissions') :
       LET sub == submissions'[i] IN
       MadeByCreate(sub) =>
         /\ Len(sub.versions) = sub.currentVersion
         /\ \A k \in 1..Len(sub.versions) : sub.versions[k].version = k
  /\ \A sub \in Rows :
       MadeByCreate(sub) =>
         /\ HasRow(submissions', sub.id)
         /\ IsPrefix(sub.versions, PostRow(sub.id).versions)

C3_Original == [][C3_Step]_vars

\* C4: a student update whose patch leaves contentRef absent (undefined or
\* empty) or equal to the stored contentRef, and notes absent or equal to
\* the stored notes, appends no version entry and leaves currentVersion as
\* it was, whatever title, type, milestones or professorId it carries.
C4_Step ==
  (last'.op = "update" /\ last'.role = "student" /\ HasRow(submissions, last'.id)) =>
    LET sub == getSubmissionById(last'.id)
        p == last'.body IN
    (/\ ~Truthy(p.contentRef) \/ p.contentRef = sub.contentRef
     /\ p.notes = Undefined \/ p.notes = sub.notes)
      => /\ HasRow(submissions', sub.id)
         /\ PostRow(sub.id).versions = sub.versions
         /\ PostRow(sub.id).currentVersion = sub.currentVersion

C4_NoVersionWithoutContentChange == [][C4_Step]_vars

C4_Witness ==
  /\ StudentUpdateDone(last)
  /\ last.body.title = "T2" /\ last.body.professorId = Profab
  /\ last.body.contentRef = Undefined /\ last.body.notes = Undefined
  /\ \E sub \in Rows :
       /\ sub.id = last.id /\ sub.title = "T2" /\ sub.professorId = Profab
       /\ sub.currentVersion = 1 /\ Len(sub.versions) = 1

\* C5: a student update answered 200 whose patch provides a (non-empty)
\* contentRef different from the stored one, or provides notes (any value,
\* the empty string included) different from the stored notes, appends
\* exactly one version entry, increments currentVersion by one and
\* overwrites the root contentRef and notes with the values provided.
C5_Step ==
  (StudentUpdateDone(last') /\ HasRow(submissions, last'.id)) =>
    LET sub == getSubmissionById(last'.id)
        p == last'.body IN
    (\/ Truthy(p.contentRef) /\ p.contentRef # sub.contentRef
     \/ p.notes # Undefined /\ p.notes # sub.notes)
      => /\ HasRow(submissions', sub.id)
         /\ Len(PostRow(sub.id).versions) = Len(sub.versions) + 1
         /\ IsPrefix(sub.versions, PostRow(sub.id).versions)
         /\ PostRow(sub.id).currentVersion = sub.currentVersion + 1
         /\ Truthy(p.contentRef) => PostRow(sub.id).contentRef = p.contentRef
         /\ p.notes # Undefined => PostRow(sub.id).notes = p.notes

C5_ContentChangeAppendsOneVersion == [][C5_Step]_vars

C5_Witness ==
  /\ StudentUpdateDone(last)
  /\ last.body.contentRef = Undefined /\ last.body.notes = ""
  /\ \E sub \in Rows :
       /\ MadeByCreate(sub)
       /\ sub.id = last.id /\ sub.notes = "" /\ sub.currentVersion = 2
       /\ sub.versions[Len(sub.versions)].notes = ""
       /\ sub.versions[Len(sub.versions)].changes = "Notes updated"

\* C6: every Create answered 201 stores a submission with status submitted,
\* currentVersion 1, empty feedback and exactly one version entry (version
\* 1, the given contentRef and notes, createdBy the caller, changes
\* "Initial submission"), and queues exactly one notification, of type
\* new_submission, addressed to the chosen professorId.
C6_Step ==
  (last'.op = "create" /\ last'.code = 201) =>
    /\ HasRow(submissions', last'.id)
    /\ LET sub == PostRow(last'.id)
           b == last'.body IN
       /\ sub.status = "submitted" /\ sub.currentVersion = 1
       /\ sub.feedback = << >>
       /\ Len(sub.versions) = 1
       /\ sub.versions[1].version = 1
       /\ sub.versions[1].contentRef = b.contentRef
       /\ sub.versions[1].notes = b.notes
       /\ sub.versions[1].createdBy = last'.userId
       /\ sub.versions[1].changes = "Initial submission"
       /\ Len(notifications') = Len(notifications) + 1
       /\ IsPrefix(notifications, notifications')
       /\ notifications'[Len(notifications')].type = "new_submission"
       /\ notifications'[Len(notifications')].userId = b.professorId

C6_CreateStoresInitialVersion == [][C6_Step]_vars

C6_Witness ==
  /\ last.op = "create" /\ last.code = 201 /\ last.body.notes = "n1"
  /\ \E sub \in Rows : sub.id = last.id /\ sub.versions[1].notes = "n1"
  /\ notifications # << >>

\* C7: an update made through the professor path changes at most notes,
\* milestones and updatedAt of the submission, for every patch.
C7_Step ==
  (last'.op = "update" /\ last'.role # "student") =>
    /\ Len(submissions') = Len(submissions)
    /\ \A i \in 1..Len(submissions) :
         submissions'[i] =
           [submissions[i] EXCEPT !.notes = submissions'[i].notes,
                                  !.milestones = submissions'[i].milestones,
                                  !.updatedAt = submissions'[i].updatedAt]

C7_ProfessorPathFrame == [][C7_Step]_vars

C7_Witness ==
  /\ last.op = "update" /\ last.role = "professor" /\ last.code = 200
  /\ last.body.title = "T2" /\ last.body.contentRef = "/b"
  /\ last.body.notes = "n1" /\ last.body.professorId = Profab
  /\ \E sub \in Rows :
       /\ sub.id = last.id /\ sub.notes = "n1" /\ sub.milestones = <<"m1">>
       /\ sub.title = "T1" /\ sub.contentRef = "/a" /\ sub.professorId = ProfAb
       /\ sub.currentVersion = 1

\* the caller is a member of a group that carries the submission's groupId
IsGroupMember(userId, sub) ==
  /\ sub.groupId # NoGroup
  /\ \E i \in 1..Len(groups) :
       groups[i].id = sub.groupId /\ ArrIncludes(groups[i].members, userId)

\* C8: an update with the professor role succeeds only when the caller is
\* the professor assigned to the submission; from any other professor it is
\* refused and the submission stays as it was.
C8_Step ==
  (/\ last'.op = "update" /\ last'.role = "professor"
   /\ HasRow(submissions, last'.id)
   /\ getSubmissionById(last'.id).professorId # last'.userId)
    => last'.code # 200 /\ submissions' = submissions

C8_Original == [][C8_Step]_vars

\* C9: a student update is authorized whenever the caller is the
\* submission's studentId, and whenever the caller is a member of the
\* submission's group, in every state that member additions and removals
\* can reach.
C9_Step ==
  (/\ last'.op = "update" /\ last'.role = "student"
   /\ HasRow(submissions, last'.id)
   /\ LET sub == getSubmissionById(last'.id) IN
        sub.studentId = last'.userId \/ IsGroupMember(last'.userId, sub))
    => last'.code # 403

C9_Original == [][C9_Step]_vars

\* C10: an update by a student who is neither the submission's owner nor a
\* member of its group is answered forbidden and leaves the submission
\* unchanged.
C10_Step ==
  (/\ last'.op = "update" /\ last'.role = "student"
   /\ HasRow(submissions, last'.id)
   /\ LET sub == getSubmissionById(last'.id) IN
        sub.studentId # last'.userId /\ ~IsGroupMember(last'.userId, sub))
    => last'.code = 403 /\ submissions' = submissions

C10_StrangerIsForbidden == [][C10_Step]_vars

C10_Witness ==
  /\ last.op = "update" /\ last.role = "student" /\ last.code = 403
  /\ \E sub \in Rows :
       /\ sub.id = last.id /\ sub.groupId # NoGroup
       /\ sub.studentId # last.userId /\ ~IsGroupMember(last.userId, sub)
       /\ sub.notes = Undefined /\ sub.currentVersion = 1

\* ------------------------------------------ requests that are refused
ValidCreate == CreateBody(Undefined, NoGroup, ProfAb)

\* bodies of POST /api/submissions that fail one validation each
InvalidCreates ==
  { [ValidCreate EXCEPT !.title = Undefined],
    [ValidCreate EXCEPT !.type = ""],
    [ValidCreate EXCEPT !.contentRef = Undefined],
    [ValidCreate EXCEPT !.professorId = NoId],
    [ValidCreate EXCEPT !.professorId = ProfU],
    [ValidCreate EXCEPT !.professorId = S2],
    [ValidCreate EXCEPT !.professorId = Anon] }

ErrorInputs ==
  [creates |->
     Req({Caller(S1, "student"), Caller(Anon, "student"), Caller(ProfAb, "professor")},
         {ValidCreate})
     \cup Req({Caller(S1, "student")},
              InvalidCreates
                \cup {CreateBody(Undefined, g, ProfAb) : g \in GroupIds}
                \cup {[CreateBody(Undefined, g, ProfAb) EXCEPT !.title = ""] :
                        g \in GroupIds}),
   updates |->
     Req({Caller(S1, "student")},
         {Patch("/b", Undefined, Undefined), FullPatch("/b", "n1", "array", ProfU),
          FullPatch(Undefined, "n1", "array", Anon)})
     \cup Req({Caller(S2, "student")}, {Patch("/b", Undefined, Undefined)}),
   comments |->
     Req({Caller(S1, "student")}, {<<" ", "h", " ">>, <<" ">>, << >>})
     \cup Req({Caller(S2, "student"), Caller(S1, "professor")}, {<<"h", "i">>}),
   feedbacks |->
     Req({Caller(ProfAb, "professor"), Caller(Profab, "professor"),
          Caller(ProfAb, "student")},
         {[text |-> <<"o", "k">>, status |-> "approved", grade |-> 85]}),
   lists |->
     Req({Caller(S1, "student")}, {[studentId |-> NoId, groupId |-> NoGroup]}),
   analytics |-> {Caller(S1, "student")},
   versionLists |-> {Caller(S2, "student")},
   versionReads |-> Req({Caller(S1, "student")}, {1}),
   groupCreates |-> {Caller(S2, "student")},
   memberAdds |-> Req({Caller(S2, "student")}, {S1}),
   memberRemoves |-> Req({Caller(S2, "student")}, {S1})]

\* validation and refusals, from an empty table
SpecErrors == InitWith({<< >>}, {TRUE}) /\ [][Next(ErrorInputs)]_vars

\* the request just handled was answered with an error
Refused(l) == l.code # 200 /\ l.code # 201

\* C11: an update, create, comment or feedback call that returns an error
\* leaves every persisted submission and the notification list unchanged;
\* in particular a student update that changes contentRef or notes but
\* names a professorId that is no existing verified professor is answered
\* 400 and persists nothing.
C11_Step ==
  (last'.op \in {"update", "create", "comment", "feedback"} /\ Refused(last'))
    => /\ submissions' = submissions
       /\ notifications' = notifications
       /\ (/\ last'.op = "update" /\ last'.role = "student"
           /\ HasRow(submissions, last'.id)
           /\ ~StudentForbidden([userId |-> last'.userId, role |-> last'.role],
                                getSubmissionById(last'.id))
           /\ last'.body.professorId # NoId
           /\ ~IsVerifiedProfessor(last'.body.professorId))
            => last'.code = 400

C11_ErrorsPersistNothing == [][C11_Step]_vars

C11_Witness ==
  /\ last.op = "update" /\ last.code = 400
  /\ last.body.contentRef = "/b" /\ last.body.notes = "n1"
  /\ last.body.title = "T2" /\ last.body.professorId = ProfU
  /\ \E sub \in Rows :
       /\ sub.id = last.id /\ sub.contentRef = "/a" /\ sub.title = "T1"
       /\ sub.currentVersion = 1 /\ Len(sub.versions) = 1
       /\ sub.milestones = << >> /\ sub.professorId = ProfAb

\* ------------------------------------- requests about reconciliation
NoQuery == [studentId |-> NoId, groupId |-> NoGroup]

\* professor callers whose id equals a stored professorId exactly, up to
\* case, as a substring, or not at all; Anon is no registered user
ProfessorCallers ==
  {Caller(u, "professor") : u \in {ProfAb, Profab, ProfAbc, Anon, ProfU}}

ReconcileInputs ==
  [creates |->
     Req({Caller(S1, "student")},
         {CreateBody(Undefined, NoGroup, u) : u \in {ProfAb, ProfAbc}}),
   updates |->
     Req({Caller(S1, "student")}, {Patch(Undefined, "n1", Undefined)}),
   comments |-> Req({Caller(S1, "student")}, {<<"h", "i">>}),
   feedbacks |->
     Req({Caller(ProfAb, "professor")},
         {[text |-> << >>, status |-> "approved", grade |-> NoGrade]}),
   lists |->
     Req(ProfessorCallers, {NoQuery, [NoQuery EXCEPT !.studentId = S2]}),
   analytics |-> {Caller(Profab, "professor")},
   versionLists |-> ProfessorCallers,
   versionReads |-> Req(ProfessorCallers, {1, MaxVersions + 1}),
   groupCreates |-> {Caller(ProfAb, "professor")},
   memberAdds |-> Req({Caller(S2, "student")}, {S1}),
   memberRemoves |-> Req({Caller(S2, "student")}, {S1})]

\* professor-id reconciliation, from an empty table
SpecReconcile == InitWith({<< >>}, {TRUE}) /\ [][Next(ReconcileInputs)]_vars

\* C12: after a professor with id P has listed submissions, every submission
\* that matched P (before the query filters) has stored professorId exactly
\* P; a submission whose professorId already equalled P is not written; and
\* the rewrite changes no field other than professorId.
C12_Step ==
  (last'.op = "list" /\ last'.role # "student" /\ last'.code = 200) =>
    /\ Len(submissions') = Len(submissions)
    /\ \A i \in 1..Len(submissions) :
         LET old == submissions[i]
             new == submissions'[i] IN
         /\ ProfessorMatches(old, last'.userId) => new.professorId = last'.userId
         /\ old.professorId = last'.userId =>
              old.id \notin PersistWrites(submissions, last'.userId)
         /\ new = [old EXCEPT !.professorId = new.professorId]
         /\ ~ProfessorMatches(old, last'.userId) => new = old

C12_ListRewritesMatchesOnly == [][C12_Step]_vars

C12_Witness ==
  /\ last.op = "list" /\ last.code = 200 /\ last.userId = ProfAbc
  /\ last.body.studentId = S2 /\ last.result = << >>
  /\ \E sub \in Rows :
       /\ sub.professorId = ProfAbc /\ sub.updatedAt < now
       /\ sub.status = "approved"

\* C13: for a professor caller both version reads grant access exactly when
\* the submission matches the caller under the rule of the listing (exact,
\* equal up to case, or substring up to case in either direction), and on a
\* match that is not exact rewrite the stored professorId to the caller id.
C13_Step ==
  (/\ last'.op \in {"versions", "version"} /\ last'.role = "professor"
   /\ HasRow(submissions, last'.id))
    => LET sub == getSubmissionById(last'.id) IN
       /\ last'.code # 403 <=> ProfessorMatches(sub, last'.userId)
       /\ NeedsRewrite(sub, last'.userId) =>
            /\ HasRow(submissions', sub.id)
            /\ PostRow(sub.id).professorId = last'.userId

C13_Original == [][C13_Step]_vars

\* ----------------------------------------------- requests about feedback
FeedbackBody(text, status, grade) ==
  [text |-> text, status |-> status, grade |-> grade]

\* "rejected" is a status the handler does not know; NotANumber is a grade
\* sent as a string
FeedbackBodies ==
  { FeedbackBody(t, s, g) :
      t \in {<< >>, <<"o", "k">>},
      s \in {Undefined, "", "approved", "submitted", "rejected"},
      g \in {NoGrade, NotANumber, 85} }

FeedbackInputs ==
  [creates |-> Req({Caller(S1, "student")}, {ValidCreate}),
   updates |->
     Req({Caller(ProfAb, "professor")}, {Patch(Undefined, "n1", Undefined)}),
   comments |-> Req({Caller(S1, "student")}, {<<"h", "i">>}),
   feedbacks |->
     Req({Caller(ProfAb, "professor")}, FeedbackBodies)
     \cup Req({Caller(Profab, "professor"), Caller(ProfAbc, "professor"),
               Caller(Anon, "professor"), Caller(ProfAb, "student"),
               Caller(S1, "student")},
              {FeedbackBody(<<"o", "k">>, "approved", 85)}),
   lists |-> Req({Caller(S1, "student")}, {NoQuery}),
   analytics |-> {Caller(S1, "student")},
   versionLists |-> {Caller(S1, "student")},
   versionReads |-> Req({Caller(S1, "student")}, {1}),
   groupCreates |-> {Caller(ProfAb, "professor")},
   memberAdds |-> Req({Caller(S2, "student")}, {S1}),
   memberRemoves |-> Req({Caller(S2, "student")}, {S1})]

\* feedback and comments, on a table that starts empty or holds a migrated
\* submission
SpecFeedback == Init /\ [][Next(FeedbackInputs)]_vars

\* C14: professor feedback is refused (forbidden, submission and
\* notifications unchanged) unless the caller has role professor and the
\* caller id equals the stored professorId exactly; equality up to case or
\* a substring match is not enough.
C14_Step ==
  (/\ last'.op = "feedback" /\ HasRow(submissions, last'.id)
   /\ \/ last'.role # "professor"
      \/ getSubmissionById(last'.id).professorId # last'.userId)
    => /\ last'.code = 403
       /\ submissions' = submissions
       /\ notifications' = notifications

C14_FeedbackNeedsExactProfessor == [][C14_Step]_vars

C14_Witness ==
  /\ last.op = "feedback" /\ last.role = "professor" /\ last.code = 403
  /\ last.userId = Profab
  /\ \E sub \in Rows :
       /\ sub.id = last.id /\ sub.professorId = ProfAb
       /\ sub.status = "submitted" /\ sub.feedback = << >>

\* the notifications a step has queued
Queued == SubSeq(notifications', Len(notifications) + 1, Len(notifications'))

QueuedOfType(type) == {i \in 1..Len(Queued) : Queued[i].type = type}

\* C15: a feedback call answered 200 queues a status_change notification to
\* the student exactly when the status after the call differs from the
\* status before, a grade notification exactly when the grade after differs
\* from the grade before, and a feedback notification exactly when
\* non-empty text was supplied; one call can queue all three.
C15_Step ==
  (last'.op = "feedback" /\ last'.code = 200) =>
    LET old == getSubmissionById(last'.id)
        new == PostRow(last'.id) IN
    /\ IsPrefix(notifications, notifications')
    /\ \A i \in 1..Len(Queued) :
         /\ Queued[i].userId = old.studentId
         /\ Queued[i].type \in {"status_change", "grade", "feedback"}
    /\ Cardinality(QueuedOfType("status_change")) =
         IF new.status # old.status THEN 1 ELSE 0
    /\ Cardinality(QueuedOfType("grade")) =
         IF new.grade # old.grade THEN 1 ELSE 0
    /\ Cardinality(QueuedOfType("feedback")) =
         IF last'.body.text # << >> THEN 1 ELSE 0

C15_Original == [][C15_Step]_vars

\* C16: in every reachable state the status of each submission is one of
\* submitted, approved, resubmit; a feedback call that carries any other
\* status leaves the status as it was, and a grade is stored only when the
\* grade supplied is a number.
C16_Step ==
  /\ \A sub \in Rows : sub.status \in Statuses
  /\ \A i \in 1..Len(submissions') : submissions'[i].status \in Statuses
  /\ (last'.op = "feedback" /\ last'.code = 200) =>
       LET old == getSubmissionById(last'.id)
           new == PostRow(last'.id)
           b == last'.body IN
       /\ b.status \notin Statuses => new.status = old.status
       /\ b.grade \in {NoGrade, NotANumber} => new.grade = old.grade
       /\ new.grade # old.grade => new.grade = b.grade /\ b.grade >= 0

C16_StatusDomain == [][C16_Step]_vars

C16_Witness ==
  /\ last.op = "feedback" /\ last.code = 200
  /\ last.body.status = "rejected" /\ last.body.grade = NotANumber
  /\ \E sub \in Rows :
       sub.id = last.id /\ sub.status = "approved" /\ sub.grade = 85

\* C17: the feedback list of a submission only grows: across every step the
\* list before is a prefix of the list after (no entry is removed, edited
\* or reordered), and only a student comment or a professor feedback call
\* appends to it.
C17_Step ==
  \A sub \in Rows :
    /\ HasRow(submissions', sub.id)
    /\ IsPrefix(sub.feedback, PostRow(sub.id).feedback)
    /\ PostRow(sub.id).feedback # sub.feedback =>
         last'.op \in {"comment", "feedback"} /\ last'.id = sub.id

C17_Original == [][C17_Step]_vars

\* ------------------------------------------------ requests about listing
ListQueries ==
  [studentId : {NoId, S1, S2}, groupId : {NoGroup, NoSuchId} \cup GroupIds]

ListInputs ==
  [creates |->
     Req({Caller(S1, "student"), Caller(S2, "student")},
         {CreateBody(Undefined, g, ProfAb) : g \in {NoGroup} \cup GroupIds}),
   updates |->
     Req({Caller(S1, "student")}, {Patch(Undefined, "n1", Undefined)}),
   comments |-> Req({Caller(S2, "student")}, {<<"h", "i">>}),
   feedbacks |->
     Req({Caller(Profab, "professor")}, {FeedbackBody(<< >>, "approved", NoGrade)}),
   lists |->
     Req({Caller(S1, "student"), Caller(S2, "student"), Caller(Anon, "student")},
         ListQueries),
   analytics |-> {Caller(S1, "student")},
   versionLists |-> {Caller(S2, "student")},
   versionReads |-> Req({Caller(S1, "student")}, {1}),
   groupCreates |-> {Caller(S1, "student"), Caller(S2, "student")},
   memberAdds |-> Req({Caller(S1, "student"), Caller(S2, "student")}, {S1, S2}),
   memberRemoves |-> Req({Caller(S1, "student"), Caller(S2, "student")}, {S1, S2})]

\* student listings over submissions with and without a group
SpecList == InitWith({<< >>}, {TRUE}) /\ [][Next(ListInputs)]_vars

\* C18: a listing for a student caller returns exactly the submissions whose
\* studentId is the caller or whose groupId names a group that contains the
\* caller, narrowed by the studentId / groupId query filters, and modifies
\* no stored state.
C18_Step ==
  (last'.op = "list" /\ last'.role = "student") =>
    LET q == last'.body
        expected ==
          {sub.id : sub \in
             {s \in Rows :
                /\ s.studentId = last'.userId \/ IsGroupMember(last'.userId, s)
                /\ q.studentId # NoId => s.studentId = q.studentId
                /\ q.groupId # NoGroup => s.groupId = q.groupId}} IN
    /\ last'.code = 200
    /\ {last'.result[i] : i \in 1..Len(last'.result)} = expected
    /\ Len(last'.result) = Cardinality(expected)
    /\ UNCHANGED <<submissions, groups, notifications>>

C18_StudentListIsExact == [][C18_Step]_vars

C18_Witness ==
  /\ last.op = "list" /\ last.role = "student" /\ last.userId = S2
  /\ last.body.studentId = S1 /\ last.body.groupId # NoGroup
  /\ Len(last.result) = 1
  /\ \E sub \in Rows :
       /\ sub.id = last.result[1] /\ sub.studentId = S1
       /\ sub.groupId = last.body.groupId /\ IsGroupMember(S2, sub)

\* C19: a student comment succeeds only when the caller has role student,
\* the caller id equals the submission's studentId (membership in the
\* submission's group is not enough) and the text is non-empty after
\* trimming; on success exactly one entry {by: caller, text: trimmed text}
\* is appended to feedback, and on refusal the submission is unchanged.
C19_Step ==
  last'.op = "comment" =>
    IF last'.code = 200
    THEN /\ last'.role = "student"
         /\ HasRow(submissions, last'.id)
         /\ Trim(last'.body) # << >>
         /\ LET old == getSubmissionById(last'.id)
                new == PostRow(last'.id) IN
            /\ old.studentId = last'.userId
            /\ Len(new.feedback) = Len(old.feedback) + 1
            /\ IsPrefix(old.feedback, new.feedback)
            /\ new.feedback[Len(new.feedback)].by = last'.userId
            /\ new.feedback[Len(new.feedback)].text = Trim(last'.body)
            /\ Head(new.feedback[Len(new.feedback)].text) # " "
            /\ new = [old EXCEPT !.feedback = new.feedback,
                                 !.updatedAt = new.updatedAt]
    ELSE submissions' = submissions

C19_CommentByOwnerOnly == [][C19_Step]_vars

\* the owner's comment is stored trimmed
C19_Witness ==
  /\ last.op = "comment" /\ last.code = 200
  /\ last.body = <<" ", "h", " ">>
  /\ \E sub \in Rows :
       /\ sub.id = last.id /\ sub.studentId = last.userId
       /\ sub.feedback = <<[by |-> last.userId, text |-> <<"h">>, date |-> now]>>

\* the validations the claim names, on the body b of a Create by userId
MissingField(b) ==
  ~Truthy(b.title) \/ ~Truthy(b.type) \/ ~Truthy(b.contentRef) \/ b.professorId = NoId

GroupNotFound(b) ==
  b.groupId # NoGroup /\ \A i \in 1..Len(groups) : groups[i].id # b.groupId

NotAGroupMember(userId, b) ==
  /\ b.groupId # NoGroup
  /\ ~GroupNotFound(b)
  /\ ~ArrIncludes(FindGroup(b.groupId).members, userId)

\* C20: a Create by a student is refused, storing no submission and queueing
\* no notification, when title, type, contentRef or professorId is missing
\* (400), when professorId names no existing verified professor (400), when
\* a given groupId names no group (400), or when the caller is no member of
\* the group named (403); otherwise it succeeds.
C20_Step ==
  (last'.op = "create" /\ last'.role = "student") =>
    LET b == last'.body IN
    IF MissingField(b) \/ ~IsVerifiedProfessor(b.professorId) \/ GroupNotFound(b)
    THEN last'.code = 400 /\ UNCHANGED <<submissions, notifications>>
    ELSE IF NotAGroupMember(last'.userId, b)
    THEN last'.code = 403 /\ UNCHANGED <<submissions, notifications>>
    ELSE /\ last'.code = 201
         /\ HasRow(submissions', last'.id)
         /\ Len(notifications') = Len(notifications) + 1

C20_Original == [][C20_Step]_vars

\* C21: every Create answered 201 allocates an id that no stored submission
\* carries, so the table grows by exactly one row and every row already
\* stored stays as it was, whatever the clock readings of the Create calls;
\* and no step changes the id of a stored submission.
C21_Step ==
  /\ (last'.op = "create" /\ last'.code = 201) =>
       /\ ~HasRow(submissions, last'.id)
       /\ Len(submissions') = Len(submissions) + 1
       /\ IsPrefix(submissions, submissions')
  /\ Len(submissions) <= Len(submissions')
  /\ \A i \in 1..Len(submissions) : submissions'[i].id = submissions[i].id

C21_Original == [][C21_Step]_vars

\* C22: every step that changes a stored field of a submission leaves that
\* submission's updatedAt at the time of the step, and no step changes the
\* createdAt of a stored submission.
C22_Step ==
  \A sub \in Rows :
    HasRow(submissions', sub.id) =>
      /\ PostRow(sub.id) # sub => PostRow(sub.id).updatedAt = now'
      /\ PostRow(sub.id).createdAt = sub.createdAt

C22_Original == [][C22_Step]_vars

\* ------------------------------------- requests about the professor filter
\* a submission migrated from submissions.json, with the id and the
\* professorId it had there
LegacyRow(id, professorId) ==
  [LegacySubmission EXCEPT !.id = id, !.professorId = professorId]

\* professor ids the foreign key admits in a migrated row
FilterProfs == {ProfAb, Profab, ProfAbc, ProfU}

\* the tables the migration can leave: none, or three migrated submissions
FilterTables ==
  {<< >>}
  \cup { <<LegacyRow(LegacyTime, p1), LegacyRow(LegacyTime - 1, p2),
           LegacyRow(LegacyTime - 2, p3)>> : p1 \in FilterProfs, p2 \in FilterProfs,
                                             p3 \in FilterProfs }

FilterInputs ==
  [creates |-> Req({Caller(S1, "student")}, {ValidCreate}),
   updates |-> Req({Caller(S2, "student")}, {Patch(Undefined, "n1", Undefined)}),
   comments |-> Req({Caller(S2, "student")}, {<<"h", "i">>}),
   feedbacks |->
     Req({Caller(S1, "student")}, {FeedbackBody(<< >>, "approved", NoGrade)}),
   lists |-> Req(ProfessorCallers, {NoQuery}),
   analytics |-> {Caller(Profab, "professor")},
   versionLists |-> {Caller(S1, "student")},
   versionReads |-> Req({Caller(S1, "student")}, {1}),
   groupCreates |-> {Caller(ProfAb, "professor")},
   memberAdds |-> Req({Caller(S2, "student")}, {S1}),
   memberRemoves |-> Req({Caller(S2, "student")}, {S1})]

\* the professor filter over tables of several migrated submissions
SpecFilter == InitWith(FilterTables, {TRUE}) /\ [][Next(FilterInputs)]_vars

\* the rule of the claim: professorId is non-empty and equals P, equals P
\* ignoring case, contains P ignoring case or is contained in P ignoring case
MatchesByRule(sub, P) ==
  /\ sub.professorId # NoId
  /\ \/ sub.professorId = P
     \/ ToLower(sub.professorId) = ToLower(P)
     \/ Includes(ToLower(sub.professorId), ToLower(P))
     \/ Includes(ToLower(P), ToLower(sub.professorId))

\* C23: filterSubmissionsByProfessor(submissions, P) returns, in input
\* order, exactly the submissions whose professorId is non-empty and equals
\* P, equals P ignoring case, contains P ignoring case or is contained in P
\* ignoring case; a submission whose professorId equals P exactly is never
\* written.
C23_Step ==
  /\ \A c \in ProfessorCallers :
       filterSubmissionsByProfessor(submissions, c.userId)
         = SelectSeq(submissions, LAMBDA sub : MatchesByRule(sub, c.userId))
  /\ (last'.op = "list" /\ last'.role # "student" /\ last'.code = 200) =>
       /\ last'.result
            = Ids(SelectSeq(submissions, LAMBDA sub : MatchesByRule(sub, last'.userId)))
       /\ \A i \in 1..Len(submissions) :
            submissions[i].professorId = last'.userId =>
              /\ submissions[i].id \notin PersistWrites(submissions, last'.userId)
              /\ submissions'[i] = submissions[i]

C23_FilterReturnsMatchesInOrder == [][C23_Step]_vars

\* a listing that returns an exact match after a rewritten one and leaves out
\* the submission between them
C23_Witness ==
  /\ last.op = "list" /\ last.code = 200 /\ last.userId = ProfAbc
  /\ Len(submissions) = 3
  /\ last.result = <<submissions[1].id, submissions[3].id>>
  /\ submissions[1].professorId = ProfAbc
  /\ submissions[2].professorId = ProfU
  /\ submissions[3].professorId = ProfAbc
  /\ \E i \in 1..Len(submissions) : submissions[i].id < LegacyTime

\* C24: when professor P lists submissions and lists again with no other
\* operation in between, the second listing returns the same submissions as
\* the first and writes no submission: on the table the first listing
\* leaves, the same request selects the same ids and finds nothing to
\* rewrite.
C24_Step ==
  (last'.op = "list" /\ last'.role # "student") =>
    LET P == last'.userId
        q == last'.body IN
    /\ PersistMatches(submissions', submissions', P) = submissions'
    /\ last'.code = 200 =>
         /\ ~FilterThrows(submissions', P)
         /\ PersistWrites(submissions', P) = {}
         /\ Ids(QueryFiltered(filterSubmissionsByProfessor(submissions', P), q))
              = last'.result

C24_RepeatedListingIsStable == [][C24_Step]_vars

\* a listing after which a submission created for professor Ab belongs to ab
C24_Witness ==
  /\ last.op = "list" /\ last.code = 200 /\ last.userId = Profab
  /\ Len(last.result) = 1
  /\ \E sub \in Rows :
       /\ sub.id = last.result[1] /\ sub.professorId = Profab
       /\ \E i \in 1..Len(notifications) :
            /\ notifications[i].type = "new_submission"
            /\ notifications[i].relatedId = sub.id
            /\ notifications[i].userId = ProfAb

\* ------------------------------- PATCH /api/submissions/:id, two processes
\* The handler reads the submission (getSubmissionById) and writes it back
\* (saveSubmission) in two SQL statements with no transaction around them.
\* Inside one process the handler runs to its response without yielding;
\* two processes that serve the same database.sqlite interleave at the
\* statements.

\* process p has read the submission and holds it in memory
LoadSubmission(p, c, id, b) ==
  /\ last.op = "idle"
  /\ loaded[p].op = "none"
  /\ HasRow(submissions, id)
  /\ loaded' = [loaded EXCEPT ![p] =
       [op |-> "update", userId |-> c.userId, role |-> c.role, id |-> id,
        body |-> b, sub |-> getSubmissionById(id)]]
  /\ UNCHANGED <<submissions, groups, notifications, now, foreignKeys, last>>

LoadedCaller(l) == [userId |-> l.userId, role |-> l.role]

\* the row the handler hands to saveSubmission: the patch applied to the
\* submission it read
LoadedRow(l) == Updated(LoadedCaller(l), l.sub, l.body)

\* a handler that compares the stored row with the one it read
FinishCode_RejectsStale(l) ==
  IF getSubmissionById(l.id) # l.sub THEN 409
  ELSE UpdateCodeFor(LoadedCaller(l), l.sub, l.body)

\* the handler has no test on the stored row between read and write
FinishCode(l) == UpdateCodeFor(LoadedCaller(l), l.sub, l.body)

\* process p runs the handler from the access check to the response
FinishUpdate(p) ==
  LET l == loaded[p]
      code == FinishCode(l) IN
  /\ last.op = "idle"
  /\ l.op # "none"
  /\ code = 200 => Len(LoadedRow(l).versions) <= MaxVersions
  /\ submissions' = IF code = 200 THEN saveSubmission(submissions, LoadedRow(l))
                    ELSE submissions
  /\ loaded' = [loaded EXCEPT ![p] = NotLoaded]
  /\ last' = Response("update", LoadedCaller(l), l.id, l.body, code, << >>)
  /\ UNCHANGED <<groups, notifications, now, foreignKeys>>

OverlapInputs ==
  [creates |-> Req({Caller(S1, "student")}, {ValidCreate}),
   updates |-> Req({Caller(S2, "student")}, {Patch(Undefined, "n1", Undefined)}),
   comments |-> Req({Caller(S2, "student")}, {<<"h", "i">>}),
   feedbacks |->
     Req({Caller(S1, "student")}, {FeedbackBody(<< >>, "approved", NoGrade)}),
   lists |-> Req({Caller(S1, "student")}, {NoQuery}),
   analytics |-> {Caller(S1, "student")},
   versionLists |-> {Caller(S1, "student")},
   versionReads |-> Req({Caller(S1, "student")}, {1}),
   groupCreates |-> {Caller(ProfAb, "professor")},
   memberAdds |-> Req({Caller(S2, "student")}, {S1}),
   memberRemoves |-> Req({Caller(S2, "student")}, {S1})]

\* updates that can be in flight at the same time
OverlapUpdates ==
  Req({Caller(S1, "student")},
      {Patch("/b", Undefined, Undefined), FullPatch(Undefined, "n1", "array", Profab),
       FullPatch(Undefined, Undefined, "array", ProfU)})
  \cup Req({Caller(ProfAb, "professor")}, {Patch(Undefined, "n2", Undefined)})
  \cup Req({Caller(S2, "student")}, {Patch("/b", Undefined, Undefined)})

NextOverlap ==
  \/ Next(OverlapInputs)
  \/ \E p \in Procs, r \in OverlapUpdates, id \in TargetIds :
       LoadSubmission(p, r.c, id, r.body)
  \/ \E p \in Procs : FinishUpdate(p)

\* two server processes on one database, from an empty table
SpecOverlap == InitWith({<< >>}, {TRUE}) /\ [][NextOverlap]_vars

\* process p answers the update it had in flight
Finishing(p) == loaded[p].op # "none" /\ loaded'[p].op = "none"

\* C25: when two updates of one submission have both read it before either
\* saves, neither is refused for a stale read (each is answered as its own
\* checks on the row it read decide) and after each save the stored row is
\* exactly the full row that save wrote: the patch applied to the row that
\* request had read, whatever the other request stored in between.
C25_Step ==
  \A p \in Procs :
    Finishing(p) =>
      LET l == loaded[p]
          code == UpdateCodeFor(LoadedCaller(l), l.sub, l.body) IN
      /\ last'.op = "update" /\ last'.id = l.id
      /\ last'.code = code
      /\ last'.code \in {200, 400, 403}
      /\ IF code = 200
         THEN /\ HasRow(submissions', l.id)
              /\ PostRow(l.id) =
                   [(IF l.role = "student"
                     THEN StudentUpdated(LoadedCaller(l), l.sub, l.body)
                     ELSE ProfessorUpdated(l.sub, l.body))
                      EXCEPT !.updatedAt = now]
         ELSE submissions' = submissions

C25_LastWriteWins == [][C25_Step]_vars

\* the student's save (version 2, read again by a process since) has been
\* replaced by the save of a professor update that had read version 1
C25_Witness ==
  /\ last.op = "update" /\ last.role = "professor" /\ last.code = 200
  /\ last.body.notes = "n2"
  /\ \E sub \in Rows, p \in Procs :
       /\ sub.id = last.id /\ sub.currentVersion = 1 /\ Len(sub.versions) = 1
       /\ sub.notes = "n2" /\ sub.contentRef = "/a"
       /\ loaded[p].op = "update" /\ loaded[p].id = sub.id
       /\ loaded[p].sub.currentVersion = 2
       /\ loaded[p].sub.contentRef = "/b"
       /\ loaded[p].sub.updatedAt > sub.createdAt

\* C26: a version read (the list of versions or one version) that answers
\* with an error (submission not found, forbidden, version not found)
\* leaves every stored submission unchanged; the professorId rewrite
\* happens only in calls that return version data.
C26_Step ==
  last'.op \in {"versions", "version"} =>
    /\ Refused(last') => submissions' = submissions
    /\ submissions' # submissions => last'.code = 200 /\ last'.result # << >>

C26_Original == [][C26_Step]_vars

\* C27: when a student update appends a version, the changes field of the
\* entry is the changes text of the request if one was given (a non-empty
\* text); otherwise it is "Content updated" whenever the contentRef changed,
\* also when the notes changed in the same patch, and "Notes updated" when
\* only the notes changed; createdBy is the caller id.
C27_Step ==
  (/\ StudentUpdateDone(last') /\ HasRow(submissions, last'.id)
   /\ Len(PostRow(last'.id).versions) > Len(getSubmissionById(last'.id).versions))
    => LET sub == getSubmissionById(last'.id)
           p == last'.body
           entry == PostRow(last'.id).versions[Len(PostRow(last'.id).versions)] IN
       /\ entry.createdBy = last'.userId
       /\ IF Truthy(p.changes) THEN entry.changes = p.changes
          ELSE IF Truthy(p.contentRef) /\ p.contentRef # sub.contentRef
          THEN entry.changes = "Content updated"
          ELSE /\ entry.changes = "Notes updated"
               /\ p.notes # Undefined /\ p.notes # sub.notes

C27_ChangesText == [][C27_Step]_vars

\* content and notes changed in one patch that carries no changes text
C27_Witness ==
  /\ StudentUpdateDone(last)
  /\ last.body.contentRef = "/b" /\ last.body.notes = "n1"
  /\ last.body.changes = Undefined
  /\ \E sub \in Rows :
       /\ sub.id = last.id /\ MadeByCreate(sub) /\ Len(sub.versions) = 2
       /\ sub.versions[1].contentRef = "/a" /\ sub.versions[1].notes = Undefined
       /\ sub.versions[2].changes = "Content updated"
       /\ sub.versions[2].createdBy = last.userId
       /\ sub.versions[2].notes = "n1"

\* C28: the status and the grade of a stored submission change only in a
\* feedback call made with role professor by the caller whose id equals the
\* submission's professorId at the time of the call; no other call changes
\* them.
C28_Step ==
  \A sub \in Rows :
    /\ HasRow(submissions', sub.id)
    /\ (PostRow(sub.id).status # sub.status \/ PostRow(sub.id).grade # sub.grade)
         => /\ last'.op = "feedback" /\ last'.code = 200
            /\ last'.role = "professor"
            /\ last'.id = sub.id
            /\ last'.userId = sub.professorId

C28_Original == [][C28_Step]_vars

\* the id is the userId of a registered professor
IsRegisteredProfessor(uid) ==
  UserExists(uid) /\ getUserByUserId(uid).role = "professor"

\* C29: a listing, analytics or version-read call by professor P never
\* changes the professorId of a submission whose stored professorId is the
\* exact userId of another registered professor; the professorId of such a
\* submission changes only through a student update that reassigns it.
C29_Step ==
  \A sub \in Rows :
    (IsRegisteredProfessor(sub.professorId) /\ HasRow(submissions', sub.id)) =>
      /\ (/\ last'.op \in {"list", "analytics", "versions", "version"}
          /\ last'.role = "professor"
          /\ last'.userId # sub.professorId)
           => PostRow(sub.id).professorId = sub.professorId
      /\ PostRow(sub.id).professorId # sub.professorId
           => /\ last'.op = "update" /\ last'.role = "student"
              /\ last'.id = sub.id
              /\ last'.body.professorId = PostRow(sub.id).professorId

C29_Original == [][C29_Step]_vars

\* C30: for every submission made by Create, in every reachable state
\* (after professor updates and reconciliation rewrites too) the root
\* contentRef equals the contentRef of the last entry of versions.
C30_RootContentIsLastVersion ==
  \A sub \in Rows :
    MadeByCreate(sub) =>
      /\ sub.versions # << >>
      /\ sub.versions[Len(sub.versions)].contentRef = sub.contentRef

\* a submission with a second version whose notes a professor update has
\* replaced and whose professorId a version listing has rewritten: it was
\* approved by professor ab and belongs to Ab
C30_Witness ==
  /\ last.op = "versions" /\ last.role = "professor" /\ last.code = 200
  /\ \E sub \in Rows :
       /\ MadeByCreate(sub) /\ sub.id = last.id
       /\ sub.status = "approved" /\ sub.professorId = ProfAb
       /\ Len(sub.versions) = 2 /\ sub.contentRef = "/b"
       /\ sub.versions[2].contentRef = "/b"
       /\ sub.versions[2].notes # sub.notes

====
